---- MODULE Spec2Model ----
(***************************************************************************)
(* Model of read_weight.py: the BLE scale reading session run(), the       *)
(* payload decoders parse_weight / heuristic_parse / find_weight_in_raw    *)
(* and the CSV recorder that run() and generic_handler write to.           *)
(*                                                                         *)
(* Weights are kept in thousandths of a unit (raw * 0.005 kg is raw * 5,   *)
(* raw * 0.01 lb is raw * 10, raw32 * 0.001 kg is raw32), which is exact   *)
(* for every 16 bit raw value and agrees with the float comparisons of the *)
(* source on all of them.  Time is in whole seconds.                       *)
(***************************************************************************)
EXTENDS Integers, Sequences, FiniteSets, TLC

(* ------------------------------ bounds ------------------------------- *)
MaxDuration == 2
MaxRetry == 2
MaxNotifs == 2
MaxLen == 4

(* --------------------------- program constants ----------------------- *)
WEIGHT_CHAR == <<"00002a9d", "-0000-1000-8000-00805f9b34fb">>
VENDOR_PREFIX == "00001910"
POLL_INTERVAL == 1

(* a uuid is <<first eight characters, remaining characters>> *)
UuidStr(u) == u[1] \o u[2]

(* str.lower() on the eight leading characters of the uuids used here *)
Lower(s) ==
  CASE s = "0000FFF0" -> "0000fff0"
    [] OTHER -> s

(* ------------------------------ decoders ----------------------------- *)
(* int.from_bytes(data[off:off+n], "little") for the slice that exists *)
RECURSIVE LittleEndian(_)
LittleEndian(bs) ==
  IF bs = <<>> THEN 0 ELSE Head(bs) + 256 * LittleEndian(Tail(bs))

Slice(data, from, to) ==
  SubSeq(data, from + 1, IF to < Len(data) THEN to ELSE Len(data))

NoResult == [ok |-> FALSE, weight |-> 0, unit |-> "", method |-> "none", offset |-> -1]

Result(w, u, m, off) == [ok |-> TRUE, weight |-> w, unit |-> u, method |-> m, offset |-> off]

parse_weight_anyFlag(data) ==
  IF Len(data) < 3 THEN NoResult
  ELSE LET raw == LittleEndian(Slice(data, 1, 3))
       IN IF data[1] # 0 THEN Result(raw * 10, "lb", "standard", -1)
          ELSE Result(raw * 5, "kg", "standard", -1)

parse_weight(data) ==
  IF Len(data) < 3 THEN NoResult
  ELSE LET flags == data[1]
           unit_imperial == (flags % 2) = 1
           raw == LittleEndian(Slice(data, 1, 3))
       IN IF unit_imperial THEN Result(raw * 10, "lb", "standard", -1)
          ELSE Result(raw * 5, "kg", "standard", -1)

(* raw32 * 0.001 lies in the open or closed range asked for.  A fourth    *)
(* byte that is not zero makes raw32 at least 2^24, above every bound the *)
(* source compares with, so the 32 bit value is only formed when it is 0. *)
Raw32Small(w) == w[4] = 0

heuristic_parse_lbFirst(data) ==
  IF Len(data) < 2 THEN NoResult
  ELSE LET raw16 == LittleEndian(Slice(data, 0, 2))
           kg == raw16 * 5
           lb == raw16 * 10
       IN IF 0 < lb /\ lb < 1000000 THEN Result(lb, "lb", "uint16*0.01", -1)
          ELSE IF 0 < kg /\ kg < 500000 THEN Result(kg, "kg", "uint16*0.005", -1)
          ELSE NoResult

heuristic_parse(data) ==
  IF Len(data) < 2 THEN NoResult
  ELSE LET raw16 == LittleEndian(Slice(data, 0, 2))
           kg == raw16 * 5
           lb == raw16 * 10
       IN IF 0 < kg /\ kg < 500000 THEN Result(kg, "kg", "uint16*0.005", -1)
          ELSE IF 0 < lb /\ lb < 1000000 THEN Result(lb, "lb", "uint16*0.01", -1)
          ELSE IF Len(data) >= 4 /\ Raw32Small(Slice(data, 0, 4))
                  /\ 0 < LittleEndian(Slice(data, 0, 4))
                  /\ LittleEndian(Slice(data, 0, 4)) < 500000
               THEN Result(LittleEndian(Slice(data, 0, 4)), "kg", "uint32*0.001", -1)
          ELSE NoResult

Max0(n) == IF n > 0 THEN n ELSE 0

RECURSIVE Scan32(_, _)
Scan32(data, off) ==
  IF off >= Max0(Len(data) - 3) THEN NoResult
  ELSE LET w == Slice(data, off, off + 4)
       IN IF Raw32Small(w) /\ 2000 <= LittleEndian(w) /\ LittleEndian(w) <= 300000
          THEN Result(LittleEndian(w), "kg", "uint32*0.001", off)
          ELSE Scan32(data, off + 1)

RECURSIVE Scan16_kgOnly(_, _)
Scan16_kgOnly(data, off) ==
  IF off >= Max0(Len(data) - 1) THEN Scan32(data, 0)
  ELSE LET raw16 == LittleEndian(Slice(data, off, off + 2))
           kg == raw16 * 5
       IN IF 2000 <= kg /\ kg <= 300000 THEN Result(kg, "kg", "uint16*0.005", off)
          ELSE Scan16_kgOnly(data, off + 1)

RECURSIVE Scan16(_, _)
Scan16(data, off) ==
  IF off >= Max0(Len(data) - 1) THEN Scan32(data, 0)
  ELSE LET raw16 == LittleEndian(Slice(data, off, off + 2))
           kg == raw16 * 5
           lb == raw16 * 10
       IN IF 2000 <= kg /\ kg <= 300000 THEN Result(kg, "kg", "uint16*0.005", off)
          ELSE IF 5000 <= lb /\ lb <= 660000 THEN Result(lb, "lb", "uint16*0.01", off)
          ELSE Scan16(data, off + 1)

find_weight_in_raw(data) ==
  IF data = <<>> THEN NoResult ELSE Scan16(data, 0)

(* lines 93-107: the windows find_weight_in_raw examines, as <<width,     *)
(* offset>>: each loop runs from offset 0 and returns at the first window *)
(* it accepts, the 4-byte loop only after the 2-byte loop found nothing   *)
WindowsTried(data) ==
  LET r == find_weight_in_raw(data)
      n16 == IF data = <<>> THEN 0 ELSE Max0(Len(data) - 1)
      n32 == IF data = <<>> THEN 0 ELSE Max0(Len(data) - 3)
      last16 == IF r.ok /\ r.method # "uint32*0.001" THEN r.offset + 1 ELSE n16
      last32 == IF r.ok /\ r.method # "uint32*0.001" THEN 0
                ELSE IF r.ok THEN r.offset + 1 ELSE n32
  IN [k \in 1..last16 |-> <<2, k - 1>>] \o [k \in 1..last32 |-> <<4, k - 1>>]

Decode_scanFirst(raw) ==
  LET r3 == find_weight_in_raw(raw)
      r1 == IF r3.ok THEN r3 ELSE parse_weight(raw)
  IN IF r1.ok THEN r1 ELSE heuristic_parse(raw)

(* the three-stage decode at the head of generic_handler *)
Decode(raw) ==
  LET r1 == parse_weight(raw)
      r2 == IF r1.ok THEN r1 ELSE heuristic_parse(raw)
  IN IF r2.ok THEN r2 ELSE find_weight_in_raw(raw)

(* ---------------------------- CSV fields ----------------------------- *)
HexDigits == <<"0","1","2","3","4","5","6","7","8","9","a","b","c","d","e","f">>

RECURSIVE Hex(_)
Hex(bs) ==
  IF bs = <<>> THEN ""
  ELSE HexDigits[(Head(bs) \div 16) + 1] \o HexDigits[(Head(bs) % 16) + 1] \o Hex(Tail(bs))

(* f"{weight:.3f}" of a weight given in thousandths *)
Fmt3(milli) ==
  LET frac == milli % 1000
      pad == IF frac < 10 THEN "00" ELSE IF frac < 100 THEN "0" ELSE ""
  IN ToString(milli \div 1000) \o "." \o pad \o ToString(frac)

RECURSIVE Join(_)
Join(uuids) ==
  IF uuids = <<>> THEN ""
  ELSE IF Len(uuids) = 1 THEN UuidStr(uuids[1])
  ELSE UuidStr(uuids[1]) \o ";" \o Join(Tail(uuids))

HEADER_RAW == <<"timestamp_utc", "weight", "unit", "raw_hex", "services">>
HEADER_MIN == <<"timestamp_utc", "weight", "unit">>

(* ------------------------- discovered devices ----------------------- *)
Char(u, props) == [uuid |-> u, properties |-> props]
Service(u, chars) == [uuid |-> u, characteristics |-> chars]

U_2B10 == <<"00002b10", "-0000-1000-8000-00805f9b34fb">>
U_FFF1 == <<"0000fff1", "-0000-1000-8000-00805f9b34fb">>
U_FFF2 == <<"0000fff2", "-0000-1000-8000-00805f9b34fb">>
U_FFF3 == <<"0000fff3", "-0000-1000-8000-00805f9b34fb">>
S_181D == <<"0000181d", "-0000-1000-8000-00805f9b34fb">>
S_180A == <<"0000180a", "-0000-1000-8000-00805f9b34fb">>
S_1910 == <<"00001910", "-0000-1000-8000-00805f9b34fb">>
S_FFF0 == <<"0000FFF0", "-0000-1000-8000-00805f9b34fb">>

DevStandard == <<Service(S_181D, <<Char(WEIGHT_CHAR, {"notify", "indicate"})>>)>>
DevVendor ==
  <<Service(S_180A, <<Char(U_FFF1, {"read"}), Char(U_FFF2, {"notify"})>>),
    Service(S_1910, <<Char(U_FFF3, {"write"}), Char(U_2B10, {"notify", "write"})>>)>>
DevAnyNotify ==
  <<Service(S_FFF0, <<Char(U_FFF1, {"read", "write"}), Char(U_FFF2, {"read", "notify"})>>)>>
DevReadOnly ==
  <<Service(S_FFF0, <<Char(U_FFF1, {"write"}), Char(U_FFF2, {"read"}), Char(U_FFF3, {"read"})>>)>>
DevStandardRead == <<Service(S_181D, <<Char(WEIGHT_CHAR, {"read"})>>)>>
DevDuplicate ==
  <<Service(S_180A, <<Char(U_FFF1, {"read"})>>),
    Service(S_FFF0, <<Char(U_FFF1, {"notify"})>>)>>
DevWriteOnly == <<Service(S_FFF0, <<Char(U_FFF1, {"write"})>>)>>
DevEmpty == <<>>
DevStandardLate ==
  <<Service(S_1910, <<Char(U_2B10, {"notify"})>>),
    Service(S_181D, <<Char(U_FFF1, {"notify"}), Char(WEIGHT_CHAR, {"indicate"})>>)>>
DevVendorSecond ==
  <<Service(S_1910, <<Char(U_FFF1, {"read"})>>),
    Service(S_FFF0, <<Char(U_FFF2, {"notify"})>>),
    Service(S_1910, <<Char(U_FFF3, {"read"}), Char(U_2B10, {"notify"})>>)>>

Devices ==
  {DevStandard, DevVendor, DevAnyNotify, DevReadOnly, DevStandardRead,
   DevDuplicate, DevWriteOnly, DevEmpty, DevStandardLate, DevVendorSecond}

(* the payloads the decoders are exercised on: every byte sequence of up  *)
(* to MaxLen bytes over the byte values of the documented examples        *)
ByteValues == {0, 1, 16, 20, 39, 80, 100, 255}
Frames == UNION {[1..n -> ByteValues] : n \in 0..MaxLen}

(* bytes a notification or a poll read may deliver, and a probe read *)
FramePayloads == {<<0, 0, 20>>, <<0, 0>>}
ProbePayloads == {<<80, 0>>, <<0, 0>>, <<0, 0, 20>>}

(* [c for s in services for c in s.characteristics] *)
RECURSIVE Flatten(_)
Flatten(svcs) ==
  IF svcs = <<>> THEN <<>>
  ELSE Head(svcs).characteristics \o Flatten(Tail(svcs))

RECURSIVE Uuids(_)
Uuids(xs) == IF xs = <<>> THEN <<>> ELSE <<Head(xs).uuid>> \o Uuids(Tail(xs))

NoChar == <<"", "">>

(* first element of a sequence satisfying a test, as an index (0: none) *)
RECURSIVE FirstNotify(_, _)
FirstNotify(chars, i) ==
  IF i > Len(chars) THEN 0
  ELSE IF "notify" \in chars[i].properties THEN i
  ELSE FirstNotify(chars, i + 1)

(* rung 1: the standard characteristic id is among the discovered ones *)
SelectStandard(svcs) ==
  IF \E i \in 1..Len(Flatten(svcs)) : Flatten(svcs)[i].uuid = WEIGHT_CHAR
  THEN WEIGHT_CHAR ELSE NoChar

(* rung 2: first notify characteristic of a service with the vendor prefix *)
RECURSIVE SelectVendor(_)
SelectVendor(svcs) ==
  IF svcs = <<>> THEN NoChar
  ELSE LET s == Head(svcs)
           i == FirstNotify(s.characteristics, 1)
       IN IF Lower(s.uuid[1]) = VENDOR_PREFIX /\ i > 0
          THEN s.characteristics[i].uuid
          ELSE SelectVendor(Tail(svcs))

(* rung 3: first notify characteristic anywhere *)
SelectAnyNotify(svcs) ==
  LET i == FirstNotify(Flatten(svcs), 1)
  IN IF i > 0 THEN Flatten(svcs)[i].uuid ELSE NoChar

(* lines 195-222: the three rungs that need no transport read *)
SelectNoProbe(svcs) ==
  IF SelectStandard(svcs) # NoChar THEN SelectStandard(svcs)
  ELSE IF SelectVendor(svcs) # NoChar THEN SelectVendor(svcs)
  ELSE SelectAnyNotify(svcs)

(* lines 296-303: the decoders generic_handler calls on a payload, in the  *)
(* order of the calls                                                     *)
DecodeCalls(raw) ==
  <<"parse_weight">>
  \o (IF parse_weight(raw).ok THEN <<>>
      ELSE <<"heuristic_parse">>
           \o (IF heuristic_parse(raw).ok THEN <<>>
               ELSE <<"find_weight_in_raw">>))

(* lines 320-327: the first descriptor carrying the chosen id *)
RECURSIVE FirstWithUuid(_, _, _)
FirstWithUuid(chars, u, i) ==
  IF i > Len(chars) THEN 0
  ELSE IF chars[i].uuid = u THEN i
  ELSE FirstWithUuid(chars, u, i + 1)

ChosenCharObjHasNotify(svcs, u) ==
  LET i == FirstWithUuid(Flatten(svcs), u, 1)
  IN i > 0 /\ "notify" \in Flatten(svcs)[i].properties

(* ------------------------------- state ------------------------------- *)
VARIABLES
  reconnect, duration, retry_interval, csv_path, csv_raw, device,
  now, pc, end_time, wake_at,
  csv_file, csv_rows, csv_buffered, flush_error, closes,
  frames_handled, rows_by_handler,
  services, chosen_char, probe_i, probe_log,
  connected, linkUp, notifying, everLost,
  disconnected, cb_registered, monitor_tasks,
  attempts, retry_waits, started, stop_calls, attempt_end,
  everFailed, cancelled, lastRead, notifs,
  frame, decoder, decoded

cfgVars == <<reconnect, duration, retry_interval, csv_path, csv_raw, device>>
csvVars == <<csv_file, csv_rows, csv_buffered, flush_error, closes,
            frames_handled, rows_by_handler>>
selVars == <<services, chosen_char, probe_i, probe_log>>
linkVars == <<connected, linkUp, notifying, everLost>>
flagVars == <<disconnected, cb_registered, monitor_tasks>>
histVars == <<attempts, retry_waits, started, stop_calls, attempt_end,
              everFailed, cancelled, lastRead, notifs>>
decVars == <<frame, decoder, decoded>>
sessionVars == <<cfgVars, now, pc, end_time, wake_at, csvVars, selVars,
                 linkVars, flagVars, histVars>>
vars == <<sessionVars, decVars>>

(* places where run() is suspended in an await *)
AwaitPcs ==
  {"connect", "discover", "probe", "start_notify", "release", "poll_read",
   "poll_sleep", "waiting", "stop_disc", "stop_timeout", "retry_sleep"}

(* csv_path: "none" when no path is given, else what the path holds *)
CsvStates == {"none", "absent", "empty", "nonempty"}

(* the devices the session is run against *)
SessionDevices == {DevStandard, DevReadOnly, DevDuplicate, DevWriteOnly}

(* everything but the arguments of run() and the device *)
InitRun ==
  /\ now = 0
  /\ pc = "start"
  /\ end_time = 0
  /\ wake_at = 0
  /\ csv_file = "none"
  /\ csv_rows = <<>>
  /\ csv_buffered = 0
  /\ flush_error = FALSE
  /\ closes = 0
  /\ frames_handled = 0
  /\ rows_by_handler = 0
  /\ services = <<>>
  /\ chosen_char = NoChar
  /\ probe_i = 0
  /\ probe_log = <<>>
  /\ connected = FALSE
  /\ linkUp = FALSE
  /\ notifying = FALSE
  /\ everLost = FALSE
  /\ disconnected = FALSE
  /\ cb_registered = FALSE
  /\ monitor_tasks = 0
  /\ attempts = 0
  /\ retry_waits = 0
  /\ started = FALSE
  /\ stop_calls = 0
  /\ attempt_end = "none"
  /\ everFailed = FALSE
  /\ cancelled = FALSE
  /\ lastRead = "none"
  /\ notifs = 0

(* no decoder is being exercised on its own *)
DecoderIdle ==
  /\ frame = <<>>
  /\ decoder = "none"
  /\ decoded = NoResult

(* the session under every timing: with no CSV path or a fresh one *)
Init ==
  /\ reconnect \in BOOLEAN
  /\ duration \in 1..MaxDuration
  /\ retry_interval \in 1..MaxRetry
  /\ csv_path \in {"none", "absent"}
  /\ csv_raw = FALSE
  /\ device \in SessionDevices
  /\ InitRun
  /\ DecoderIdle

(* the selection under every discovered device, with and without a CSV *)
InitSelect ==
  /\ reconnect \in BOOLEAN
  /\ duration \in 1..MaxDuration
  /\ retry_interval = 1
  /\ csv_path \in {"none", "absent"}
  /\ csv_raw = FALSE
  /\ device \in Devices
  /\ InitRun
  /\ DecoderIdle

(* the recorder under every CSV destination and layout *)
InitRecorder ==
  /\ reconnect \in BOOLEAN
  /\ duration = MaxDuration
  /\ retry_interval = 1
  /\ csv_path \in CsvStates \ {"none"}
  /\ csv_raw \in BOOLEAN
  /\ device \in SessionDevices
  /\ InitRun
  /\ DecoderIdle

(* ------------------------------ recorder ----------------------------- *)
(* csv_rows holds the rows this run wrote, oldest first; the last          *)
(* csv_buffered of them are still in the file object's buffer              *)
Row(kind, fields) == [kind |-> kind, fields |-> fields]

(* csv_writer.writerow: the row goes to the file object's buffer *)
WriteRow(rows, kind, fields) == Append(rows, Row(kind, fields))

(* csv_file.flush(): everything buffered reaches the file, or the call    *)
(* raises and the buffer is kept                                          *)
Flush(buffered, ok) == IF ok THEN 0 ELSE buffered

(* the header decision without the look at the destination *)
NeedHeader_always(path) == TRUE

(* lines 159-176: does the path exist, and the header to write *)
NeedHeader(path) == path = "absent"

HeaderFor(raw) == IF raw THEN HEADER_RAW ELSE HEADER_MIN

(* lines 304-316: the row generic_handler writes for a frame *)
HandlerFields(data, raw, svcs) ==
  LET r == Decode(data)
      raw_hex == Hex(data)
  IN IF ~r.ok
     THEN <<"ts", "", "", raw_hex, IF raw THEN Join(Uuids(svcs)) ELSE "">>
     ELSE IF raw
          THEN <<"ts", Fmt3(r.weight), r.unit, raw_hex, Join(Uuids(svcs))>>
          ELSE <<"ts", Fmt3(r.weight), r.unit>>

(* generic_handler with the write of the unparsed branch left out *)
generic_handler_skipsUnparsed(f, data, raw, svcs, has_writer, ok) ==
  IF has_writer /\ Decode(data).ok
  THEN [rows |-> WriteRow(f.rows, "data", HandlerFields(data, raw, svcs)),
        buffered |-> Flush(f.buffered + 1, ok),
        error |-> ~ok]
  ELSE f

(* lines 291-316: rows after generic_handler ran on one frame *)
generic_handler(f, data, raw, svcs, has_writer, ok) ==
  IF has_writer
  THEN [rows |-> WriteRow(f.rows, "data", HandlerFields(data, raw, svcs)),
        buffered |-> Flush(f.buffered + 1, ok),
        error |-> ~ok]
  ELSE f

(* the CSV file object as generic_handler sees it *)
CsvObj == [rows |-> csv_rows, buffered |-> csv_buffered, error |-> flush_error]

(* lines 236-241: the row written for an accepted probe reading *)
ProbeFields(data, raw, svcs) ==
  LET r == heuristic_parse(data)
  IN <<"ts", Fmt3(r.weight), r.unit, Hex(data), IF raw THEN Join(Uuids(svcs)) ELSE "">>

(* ------------------------------ actions ------------------------------ *)
(* leaving the "async with BleakClient(address) as client" block, by its  *)
(* end, a return or an exception: the client disconnects                  *)
Released ==
  /\ connected' = FALSE
  /\ linkUp' = FALSE
  /\ notifying' = FALSE
  /\ cb_registered' = FALSE

(* lines 154-177: the deadline and the CSV destination *)
RunStart ==
  /\ pc = "start"
  /\ end_time' = now + duration
  /\ IF csv_path = "none"
     THEN UNCHANGED <<csv_file, csv_rows, csv_buffered>>
     ELSE /\ csv_file' = "open"
          /\ csv_rows' = IF NeedHeader(csv_path)
                         THEN WriteRow(<<>>, "header", HeaderFor(csv_raw))
                         ELSE <<>>
          /\ csv_buffered' = Len(csv_rows')
  /\ pc' = "loop"
  /\ UNCHANGED <<decVars, cfgVars, now, wake_at, flush_error, closes, frames_handled, rows_by_handler,
                 selVars, linkVars, flagVars, histVars>>

(* line 179: while time.time() < end_time *)
LoopCheck ==
  /\ pc = "loop"
  /\ IF now < end_time
     THEN /\ pc' = "connect"
          /\ attempts' = attempts + 1
          /\ started' = FALSE
          /\ stop_calls' = 0
          /\ lastRead' = "none"
     ELSE /\ pc' = "finally"
          /\ UNCHANGED <<attempts, started, stop_calls, lastRead>>
  /\ UNCHANGED <<decVars, cfgVars, now, end_time, wake_at, csvVars, selVars, linkVars,
                 flagVars, retry_waits, attempt_end, everFailed, cancelled,
                 notifs>>

(* line 181: the client connects *)
ConnectOk ==
  /\ pc = "connect"
  /\ connected' = TRUE
  /\ linkUp' = TRUE
  /\ attempt_end' = "none"
  /\ pc' = "discover"
  /\ UNCHANGED <<decVars, cfgVars, now, end_time, wake_at, csvVars, selVars, notifying,
                 everLost, flagVars, attempts, retry_waits, started, stop_calls,
                 everFailed, cancelled, lastRead, notifs>>

(* lines 181-184, 361: connecting raises, or is_connected is false *)
ConnectFail ==
  /\ pc = "connect"
  /\ pc' = "after_attempt"
  /\ attempt_end' = "connect_error"
  /\ everFailed' = TRUE
  /\ UNCHANGED <<decVars, cfgVars, now, end_time, wake_at, csvVars, selVars, linkVars,
                 flagVars, attempts, retry_waits, started, stop_calls,
                 cancelled, lastRead, notifs>>

(* lines 188-193: the services are enumerated *)
DiscoverOk ==
  /\ pc = "discover"
  /\ linkUp
  /\ services' = device
  /\ pc' = "select"
  /\ UNCHANGED <<decVars, cfgVars, now, end_time, wake_at, csvVars, chosen_char, probe_i,
                 probe_log, linkVars, flagVars, histVars>>

(* lines 188-193, 361: get_services raises, or the services attribute is  *)
(* None and iterating it at line 192 raises TypeError                     *)
DiscoverFail ==
  /\ pc = "discover"
  /\ \E reason \in {"discovery_none", "discovery_error"} :
       attempt_end' = reason
  /\ everFailed' = TRUE
  /\ Released
  /\ pc' = "after_attempt"
  /\ UNCHANGED <<decVars, cfgVars, now, end_time, wake_at, csvVars, selVars, everLost,
                 disconnected, monitor_tasks, attempts, retry_waits, started,
                 stop_calls, cancelled, lastRead, notifs>>

(* lines 195-226: the rungs that need no read *)
Select ==
  /\ pc = "select"
  /\ chosen_char' = SelectNoProbe(services)
  /\ IF SelectNoProbe(services) # NoChar
     THEN pc' = "setup" /\ UNCHANGED probe_i
     ELSE pc' = "probe" /\ probe_i' = 1
  /\ probe_log' = <<>>
  /\ UNCHANGED <<decVars, cfgVars, now, end_time, wake_at, csvVars, services, linkVars,
                 flagVars, histVars>>

(* one probe read of the fallback rung, as the rung leaves it behind: the  *)
(* position of the characteristic, whether the read returned, the bytes,  *)
(* and what became of the CSV row ("none" when no row was written)        *)
ProbeEntry(i, read_ok, data, recorded) ==
  [i |-> i, read |-> read_ok, data |-> data, recorded |-> recorded]

ProbeAccepts_composite(data) ==
  Decode(data).ok

(* lines 234-236: the probe decodes with heuristic_parse alone *)
ProbeAccepts(data) ==
  heuristic_parse(data).ok

(* lines 227-229: a characteristic without 'read' is passed over *)
ProbeSkip ==
  /\ pc = "probe"
  /\ probe_i <= Len(Flatten(services))
  /\ "read" \notin Flatten(services)[probe_i].properties
  /\ probe_i' = probe_i + 1
  /\ UNCHANGED <<decVars, cfgVars, now, pc, end_time, wake_at, csvVars, services,
                 chosen_char, probe_log, linkVars, flagVars, histVars>>

(* lines 230-231, 244-245: the probe read raises *)
ProbeReadFail ==
  /\ pc = "probe"
  /\ probe_i <= Len(Flatten(services))
  /\ "read" \in Flatten(services)[probe_i].properties
  /\ probe_i' = probe_i + 1
  /\ probe_log' = Append(probe_log, ProbeEntry(probe_i, FALSE, <<>>, "none"))
  /\ everFailed' = TRUE
  /\ UNCHANGED <<decVars, cfgVars, now, pc, end_time, wake_at, csvVars, services,
                 chosen_char, linkVars, flagVars, attempts, retry_waits,
                 started, stop_calls, attempt_end, cancelled, lastRead, notifs>>

(* lines 230-245: the probe read returns bytes *)
ProbeRead ==
  /\ pc = "probe"
  /\ probe_i <= Len(Flatten(services))
  /\ "read" \in Flatten(services)[probe_i].properties
  /\ linkUp
  /\ \E data \in ProbePayloads, ok \in BOOLEAN :
       IF ~ProbeAccepts(data)
       THEN /\ ok
            /\ probe_i' = probe_i + 1
            /\ probe_log' = Append(probe_log,
                                   ProbeEntry(probe_i, TRUE, data, "none"))
            /\ UNCHANGED <<pc, chosen_char, csv_rows, csv_buffered, flush_error>>
       ELSE /\ (csv_file # "open" => ok)
            /\ IF csv_file = "open"
               THEN /\ csv_rows' = WriteRow(csv_rows, "data",
                                            ProbeFields(data, csv_raw, services))
                    /\ csv_buffered' = Flush(csv_buffered + 1, ok)
                    /\ flush_error' = ~ok
               ELSE UNCHANGED <<csv_rows, csv_buffered, flush_error>>
            /\ probe_log' =
                 Append(probe_log,
                        ProbeEntry(probe_i, TRUE, data,
                                   IF csv_file # "open" THEN "none"
                                   ELSE IF ok THEN "ok" ELSE "error"))
            /\ IF ok
               THEN /\ chosen_char' = Flatten(services)[probe_i].uuid
                    /\ pc' = "setup"
                    /\ UNCHANGED probe_i
               ELSE /\ probe_i' = probe_i + 1
                    /\ UNCHANGED <<pc, chosen_char>>
  /\ UNCHANGED <<decVars, cfgVars, now, end_time, wake_at, csv_file, closes,
                 frames_handled, rows_by_handler, services, linkVars, flagVars,
                 histVars>>

ProbeNone_retries ==
  /\ pc = "probe"
  /\ probe_i > Len(Flatten(services))
  /\ Released
  /\ attempt_end' = "no_char"
  /\ pc' = "after_attempt"
  /\ UNCHANGED <<decVars, cfgVars, now, end_time, wake_at, csvVars, selVars, everLost,
                 disconnected, monitor_tasks, attempts, retry_waits, started,
                 stop_calls, everFailed, cancelled, lastRead, notifs>>

(* lines 249-251: nothing was chosen, run() returns *)
ProbeNone ==
  /\ pc = "probe"
  /\ probe_i > Len(Flatten(services))
  /\ Released
  /\ attempt_end' = "no_char"
  /\ pc' = "finally"
  /\ UNCHANGED <<decVars, cfgVars, now, end_time, wake_at, csvVars, selVars, everLost,
                 disconnected, monitor_tasks, attempts, retry_waits, started,
                 stop_calls, everFailed, cancelled, lastRead, notifs>>

(* lines 253-329: a new Event, the disconnect callback or a monitor task, *)
(* and the choice between subscribing and polling                         *)
Setup ==
  /\ pc = "setup"
  /\ disconnected' = FALSE
  /\ \E mode \in {"callback", "monitor"} :
       IF mode = "callback"
       THEN cb_registered' = TRUE /\ UNCHANGED monitor_tasks
       ELSE monitor_tasks' = monitor_tasks + 1 /\ UNCHANGED cb_registered
  /\ pc' = IF ChosenCharObjHasNotify(services, chosen_char)
           THEN "start_notify" ELSE "poll_check"
  /\ probe_log' = <<>>
  /\ UNCHANGED <<decVars, cfgVars, now, end_time, wake_at, csvVars, services,
                 chosen_char, probe_i, linkVars, histVars>>

(* line 330: start_notify succeeds; nothing follows it in the notify     *)
(* branch, so control reaches the end of the async with block             *)
StartNotifyOk ==
  /\ pc = "start_notify"
  /\ linkUp
  /\ started' = TRUE
  /\ notifying' = TRUE
  /\ pc' = "release"
  /\ UNCHANGED <<decVars, cfgVars, now, end_time, wake_at, csvVars, selVars, connected,
                 linkUp, everLost, flagVars, attempts, retry_waits, stop_calls,
                 attempt_end, everFailed, cancelled, lastRead, notifs>>

(* lines 330, 361: start_notify raises *)
StartNotifyFail ==
  /\ pc = "start_notify"
  /\ Released
  /\ attempt_end' = "start_notify_error"
  /\ everFailed' = TRUE
  /\ pc' = "after_attempt"
  /\ UNCHANGED <<decVars, cfgVars, now, end_time, wake_at, csvVars, selVars, everLost,
                 disconnected, monitor_tasks, attempts, retry_waits, started,
                 stop_calls, cancelled, lastRead, notifs>>

(* lines 291-316: the transport delivers a notification to generic_handler *)
Notification ==
  /\ notifying /\ connected /\ linkUp
  /\ notifs < MaxNotifs
  /\ \E data \in FramePayloads, ok \in BOOLEAN :
       /\ (csv_file # "open" => ok)
       /\ LET f == generic_handler(CsvObj, data, csv_raw, services,
                                   csv_file = "open", ok)
          IN /\ csv_rows' = f.rows
             /\ csv_buffered' = f.buffered
             /\ flush_error' = f.error
       /\ rows_by_handler' = rows_by_handler + (Len(csv_rows') - Len(csv_rows))
  /\ frames_handled' = frames_handled + 1
  /\ notifs' = notifs + 1
  /\ UNCHANGED <<decVars, cfgVars, now, pc, end_time, wake_at, csv_file, closes, selVars,
                 linkVars, flagVars, attempts, retry_waits, started, stop_calls,
                 attempt_end, everFailed, cancelled, lastRead>>

(* line 360/361: the end of the async with block is reached *)
Release ==
  /\ pc = "release"
  /\ Released
  /\ attempt_end' = "block_end"
  /\ pc' = "after_attempt"
  /\ UNCHANGED <<decVars, cfgVars, now, end_time, wake_at, csvVars, selVars, everLost,
                 disconnected, monitor_tasks, attempts, retry_waits, started,
                 stop_calls, everFailed, cancelled, lastRead, notifs>>

PollCheck_ignoresDeadline ==
  /\ pc = "poll_check"
  /\ pc' = IF ~disconnected THEN "poll_read" ELSE "wait_enter"
  /\ UNCHANGED <<decVars, cfgVars, now, end_time, wake_at, csvVars, selVars, linkVars,
                 flagVars, histVars>>

(* line 333: while time.time() < end_time and not disconnected.is_set() *)
PollCheck ==
  /\ pc = "poll_check"
  /\ pc' = IF now < end_time /\ ~disconnected THEN "poll_read" ELSE "wait_enter"
  /\ UNCHANGED <<decVars, cfgVars, now, end_time, wake_at, csvVars, selVars, linkVars,
                 flagVars, histVars>>

(* lines 335-340: the read returns bytes and generic_handler records them; *)
(* a flush that raises is caught at line 337 and ends the loop            *)
PollReadOk ==
  /\ pc = "poll_read"
  /\ linkUp
  /\ \E data \in FramePayloads, ok \in BOOLEAN :
       /\ (csv_file # "open" => ok)
       /\ LET f == generic_handler(CsvObj, data, csv_raw, services,
                                   csv_file = "open", ok)
          IN /\ csv_rows' = f.rows
             /\ csv_buffered' = f.buffered
             /\ flush_error' = f.error
       /\ rows_by_handler' = rows_by_handler + (Len(csv_rows') - Len(csv_rows))
       /\ IF ok
          THEN /\ pc' = "poll_sleep"
               /\ wake_at' = now + POLL_INTERVAL
               /\ lastRead' = "ok"
          ELSE /\ pc' = "wait_enter"
               /\ lastRead' = "record_error"
               /\ UNCHANGED wake_at
  /\ frames_handled' = frames_handled + 1
  /\ UNCHANGED <<decVars, cfgVars, now, end_time, csv_file, closes, selVars, linkVars,
                 flagVars, attempts, retry_waits, started, stop_calls,
                 attempt_end, everFailed, cancelled, notifs>>

(* lines 335, 337-339: the read raises; the handler prints and breaks *)
PollReadFail ==
  /\ pc = "poll_read"
  /\ lastRead' = "fail"
  /\ everFailed' = TRUE
  /\ pc' = "wait_enter"
  /\ UNCHANGED <<decVars, cfgVars, now, end_time, wake_at, csvVars, selVars, linkVars,
                 flagVars, attempts, retry_waits, started, stop_calls,
                 attempt_end, cancelled, notifs>>

(* line 340: asyncio.sleep(1) is over *)
PollWake ==
  /\ pc = "poll_sleep"
  /\ now >= wake_at
  /\ pc' = "poll_check"
  /\ UNCHANGED <<decVars, cfgVars, now, end_time, wake_at, csvVars, selVars, linkVars,
                 flagVars, histVars>>

(* lines 343-345: wait_for with a timeout that is not positive times out  *)
(* at once                                                                *)
WaitEnter ==
  /\ pc = "wait_enter"
  /\ pc' = IF end_time - now <= 0 THEN "stop_timeout" ELSE "waiting"
  /\ UNCHANGED <<decVars, cfgVars, now, end_time, wake_at, csvVars, selVars, linkVars,
                 flagVars, histVars>>

(* line 345: disconnected.wait() returns *)
WaitDisconnected ==
  /\ pc = "waiting"
  /\ disconnected
  /\ pc' = "stop_disc"
  /\ UNCHANGED <<decVars, cfgVars, now, end_time, wake_at, csvVars, selVars, linkVars,
                 flagVars, histVars>>

(* lines 345, 353: the timeout of wait_for expires *)
WaitTimeout ==
  /\ pc = "waiting"
  /\ now >= end_time
  /\ pc' = "stop_timeout"
  /\ UNCHANGED <<decVars, cfgVars, now, end_time, wake_at, csvVars, selVars, linkVars,
                 flagVars, histVars>>

(* lines 348-352, 361: stop_notify after a disconnect, then the block ends *)
StopAfterDisconnect ==
  /\ pc = "stop_disc"
  /\ stop_calls' = stop_calls + 1
  /\ Released
  /\ attempt_end' = "link_loss"
  /\ pc' = "after_attempt"
  /\ UNCHANGED <<decVars, cfgVars, now, end_time, wake_at, csvVars, selVars, everLost,
                 disconnected, monitor_tasks, attempts, retry_waits, started,
                 everFailed, cancelled, lastRead, notifs>>

(* lines 353-360: stop_notify after the timeout, then run() returns *)
StopAfterTimeout ==
  /\ pc = "stop_timeout"
  /\ stop_calls' = stop_calls + 1
  /\ Released
  /\ attempt_end' = "deadline"
  /\ pc' = "finally"
  /\ UNCHANGED <<decVars, cfgVars, now, end_time, wake_at, csvVars, selVars, everLost,
                 disconnected, monitor_tasks, attempts, retry_waits, started,
                 everFailed, cancelled, lastRead, notifs>>

(* the delay run() asks for at line 373 *)
RetryDelay(interval, remaining_time) == interval

(* AfterAttempt without the test of reconnect *)
AfterAttempt_ignoresReconnect ==
  /\ pc = "after_attempt"
  /\ IF end_time - now <= 0
     THEN /\ pc' = "finally"
          /\ UNCHANGED <<wake_at, retry_waits>>
     ELSE /\ pc' = "retry_sleep"
          /\ wake_at' = now + RetryDelay(retry_interval, end_time - now)
          /\ retry_waits' = retry_waits + 1
  /\ UNCHANGED <<decVars, cfgVars, now, end_time, csvVars, selVars, linkVars, flagVars,
                 attempts, started, stop_calls, attempt_end, everFailed,
                 cancelled, lastRead, notifs>>

(* AfterAttempt that gives up after a connect error *)
AfterAttempt_failsOnConnectError ==
  /\ pc = "after_attempt"
  /\ IF ~reconnect \/ end_time - now <= 0 \/ attempt_end = "connect_error"
     THEN /\ pc' = "finally"
          /\ UNCHANGED <<wake_at, retry_waits>>
     ELSE /\ pc' = "retry_sleep"
          /\ wake_at' = now + RetryDelay(retry_interval, end_time - now)
          /\ retry_waits' = retry_waits + 1
  /\ UNCHANGED <<decVars, cfgVars, now, end_time, csvVars, selVars, linkVars, flagVars,
                 attempts, started, stop_calls, attempt_end, everFailed,
                 cancelled, lastRead, notifs>>

(* AfterAttempt without the test of the remaining time *)
AfterAttempt_noRemainingCheck ==
  /\ pc = "after_attempt"
  /\ IF ~reconnect
     THEN /\ pc' = "finally"
          /\ UNCHANGED <<wake_at, retry_waits>>
     ELSE /\ pc' = "retry_sleep"
          /\ wake_at' = now + RetryDelay(retry_interval, end_time - now)
          /\ retry_waits' = retry_waits + 1
  /\ UNCHANGED <<decVars, cfgVars, now, end_time, csvVars, selVars, linkVars, flagVars,
                 attempts, started, stop_calls, attempt_end, everFailed,
                 cancelled, lastRead, notifs>>

(* lines 364-373: leave, or sleep before the next attempt *)
AfterAttempt ==
  /\ pc = "after_attempt"
  /\ IF ~reconnect \/ end_time - now <= 0
     THEN /\ pc' = "finally"
          /\ UNCHANGED <<wake_at, retry_waits>>
     ELSE /\ pc' = "retry_sleep"
          /\ wake_at' = now + RetryDelay(retry_interval, end_time - now)
          /\ retry_waits' = retry_waits + 1
  /\ UNCHANGED <<decVars, cfgVars, now, end_time, csvVars, selVars, linkVars, flagVars,
                 attempts, started, stop_calls, attempt_end, everFailed,
                 cancelled, lastRead, notifs>>

(* line 373: asyncio.sleep(retry_interval) is over *)
RetryWake ==
  /\ pc = "retry_sleep"
  /\ now >= wake_at
  /\ pc' = "loop"
  /\ UNCHANGED <<decVars, cfgVars, now, end_time, wake_at, csvVars, selVars, linkVars,
                 flagVars, histVars>>

(* lines 374-376: finally closes the CSV file *)
Finally ==
  /\ pc = "finally"
  /\ IF csv_file = "open"
     THEN /\ csv_file' = "closed"
          /\ closes' = closes + 1
          /\ csv_buffered' = Flush(csv_buffered, TRUE)
     ELSE UNCHANGED <<csv_file, closes, csv_buffered>>
  /\ pc' = "done"
  /\ UNCHANGED <<decVars, cfgVars, now, end_time, wake_at, csv_rows, flush_error,
                 frames_handled,
                 rows_by_handler, selVars, linkVars, flagVars, histVars>>

(* a cancellation that leaves run() without passing through finally *)
Cancel_skipsFinally ==
  /\ pc \in AwaitPcs
  /\ ~cancelled
  /\ cancelled' = TRUE
  /\ Released
  /\ attempt_end' = "cancelled"
  /\ pc' = "done"
  /\ UNCHANGED <<decVars, cfgVars, now, end_time, wake_at, csvVars, selVars, everLost,
                 disconnected, monitor_tasks, attempts, retry_waits, started,
                 stop_calls, everFailed, lastRead, notifs>>

(* CancelledError / KeyboardInterrupt delivered at an await: not caught   *)
(* by "except Exception", it leaves the client block and reaches finally  *)
Cancel ==
  /\ pc \in AwaitPcs
  /\ ~cancelled
  /\ cancelled' = TRUE
  /\ Released
  /\ attempt_end' = "cancelled"
  /\ pc' = "finally"
  /\ UNCHANGED <<decVars, cfgVars, now, end_time, wake_at, csvVars, selVars, everLost,
                 disconnected, monitor_tasks, attempts, retry_waits, started,
                 stop_calls, everFailed, lastRead, notifs>>

(* ---------------------------- environment ---------------------------- *)
(* one second passes while run() is suspended; a timer that is due fires  *)
(* before the next second, and the clock is followed up to the latest     *)
(* instant a timer of this run can be set for: a retry wait starts before *)
(* end_time, and a poll sleep that starts later still runs to its end     *)
Tick ==
  /\ pc \in AwaitPcs
  /\ \/ now < end_time + retry_interval
     \/ pc = "poll_sleep" /\ now < wake_at
  /\ ~(pc \in {"poll_sleep", "retry_sleep"} /\ now >= wake_at)
  /\ ~(pc = "waiting" /\ now >= end_time)
  /\ now' = now + 1
  /\ UNCHANGED <<decVars, cfgVars, pc, end_time, wake_at, csvVars, selVars, linkVars,
                 flagVars, histVars>>

(* the radio link drops *)
LinkLoss ==
  /\ connected /\ linkUp
  /\ linkUp' = FALSE
  /\ everLost' = TRUE
  /\ UNCHANGED <<decVars, cfgVars, now, pc, end_time, wake_at, csvVars, selVars,
                 connected, notifying, flagVars, histVars>>

(* lines 257-259, 267: the backend calls the disconnect callback *)
DisconnectCallback ==
  /\ cb_registered /\ connected /\ ~linkUp
  /\ ~disconnected
  /\ disconnected' = TRUE
  /\ UNCHANGED <<decVars, cfgVars, now, pc, end_time, wake_at, csvVars, selVars,
                 linkVars, cb_registered, monitor_tasks, histVars>>

MonitorExit_ownClient ==
  /\ monitor_tasks > 0
  /\ ~(connected /\ linkUp) \/ monitor_tasks > 1
  /\ disconnected' = TRUE
  /\ monitor_tasks' = monitor_tasks - 1
  /\ UNCHANGED <<decVars, cfgVars, now, pc, end_time, wake_at, csvVars, selVars,
                 linkVars, cb_registered, histVars>>

(* lines 270-276, 281-287: a monitor task sees is_connected false on the  *)
(* current client and calls handle_disconnect                             *)
MonitorExit ==
  /\ monitor_tasks > 0
  /\ ~(connected /\ linkUp)
  /\ disconnected' = TRUE
  /\ monitor_tasks' = monitor_tasks - 1
  /\ UNCHANGED <<decVars, cfgVars, now, pc, end_time, wake_at, csvVars, selVars,
                 linkVars, cb_registered, histVars>>

Next ==
  \/ RunStart \/ LoopCheck \/ ConnectOk \/ ConnectFail
  \/ DiscoverOk \/ DiscoverFail \/ Select
  \/ ProbeSkip \/ ProbeReadFail \/ ProbeRead \/ ProbeNone
  \/ Setup \/ StartNotifyOk \/ StartNotifyFail \/ Notification \/ Release
  \/ PollCheck \/ PollReadOk \/ PollReadFail \/ PollWake
  \/ WaitEnter \/ WaitDisconnected \/ WaitTimeout
  \/ StopAfterDisconnect \/ StopAfterTimeout
  \/ AfterAttempt \/ RetryWake \/ Finally \/ Cancel
  \/ Tick \/ LinkLoss \/ DisconnectCallback \/ MonitorExit

Spec == Init /\ [][Next]_vars

(* ------------------- the session when calls return ------------------- *)
(* the steps of run() itself, the returns of its transport calls and the  *)
(* passing of time: everything but the device, the link and cancellation  *)
Progress ==
  \/ RunStart \/ LoopCheck \/ ConnectOk \/ ConnectFail
  \/ DiscoverOk \/ DiscoverFail \/ Select
  \/ ProbeSkip \/ ProbeReadFail \/ ProbeRead \/ ProbeNone
  \/ Setup \/ StartNotifyOk \/ StartNotifyFail \/ Release
  \/ PollCheck \/ PollReadOk \/ PollReadFail \/ PollWake
  \/ WaitEnter \/ WaitDisconnected \/ WaitTimeout
  \/ StopAfterDisconnect \/ StopAfterTimeout
  \/ AfterAttempt \/ RetryWake \/ Finally
  \/ Tick

(* a session without a CSV file against a notifying and a read-only device *)
InitLive ==
  /\ reconnect \in BOOLEAN
  /\ duration \in 1..MaxDuration
  /\ retry_interval = 1
  /\ csv_path = "none"
  /\ csv_raw = FALSE
  /\ device \in {DevStandard, DevReadOnly}
  /\ InitRun
  /\ DecoderIdle

(* every await of run() returns and the clock moves on *)
SpecLive == InitLive /\ [][Next]_vars /\ WF_vars(Progress)

(* ---------------------- the decoders on their own --------------------- *)
InitDecode ==
  /\ frame \in Frames
  /\ decoder = "none"
  /\ decoded = NoResult
  /\ reconnect = FALSE
  /\ duration = 1
  /\ retry_interval = 1
  /\ csv_path = "none"
  /\ csv_raw = FALSE
  /\ device = DevEmpty
  /\ InitRun

(* lines 33-52 *)
ApplyParseWeight ==
  /\ decoder = "none"
  /\ decoder' = "parse_weight"
  /\ decoded' = parse_weight(frame)
  /\ UNCHANGED <<frame, sessionVars>>

(* lines 55-80 *)
ApplyHeuristicParse ==
  /\ decoder = "none"
  /\ decoder' = "heuristic_parse"
  /\ decoded' = heuristic_parse(frame)
  /\ UNCHANGED <<frame, sessionVars>>

(* lines 83-109 *)
ApplyFindWeightInRaw ==
  /\ decoder = "none"
  /\ decoder' = "find_weight_in_raw"
  /\ decoded' = find_weight_in_raw(frame)
  /\ UNCHANGED <<frame, sessionVars>>

(* lines 292-303: the decode at the head of generic_handler *)
ApplyGenericDecode ==
  /\ decoder = "none"
  /\ decoder' = "generic_handler"
  /\ decoded' = Decode(frame)
  /\ UNCHANGED <<frame, sessionVars>>

NextDecode ==
  \/ ApplyParseWeight
  \/ ApplyHeuristicParse
  \/ ApplyFindWeightInRaw
  \/ ApplyGenericDecode

SpecDecode == InitDecode /\ [][NextDecode]_vars

SpecRecorder == InitRecorder /\ [][Next]_vars
SpecSelect == InitSelect /\ [][Next]_vars

(* ------------------------------ claims ------------------------------- *)
(* no transport call failed, the link never dropped, nobody cancelled *)
QuietSession == ~everLost /\ ~everFailed /\ ~cancelled

(* C1: in a session whose start_notify succeeded and whose link is never  *)
(* lost, run() stays subscribed until the deadline: the subscription is   *)
(* alive while time remains, run() has not ended before the deadline, and *)
(* there is exactly one connection attempt                                *)
C1_SubscribedUntilDeadline ==
  (started /\ QuietSession) =>
     /\ attempts = 1
     /\ (now < end_time => notifying)
     /\ (pc = "done" => now >= end_time)

(* C2: once start_notify succeeded in an attempt, the connection of that  *)
(* attempt is not released before stop_notify was called                  *)
C2_StopBeforeRelease ==
  (started /\ ~connected) => stop_calls > 0

(* C3: a failed poll read does not end polling: the poll loop is only     *)
(* left after a failed read when the deadline has passed or the           *)
(* disconnect flag is set                                                 *)
C3_FailedReadKeepsPolling ==
  (pc = "wait_enter" /\ lastRead = "fail") => (now >= end_time \/ disconnected)

(* rows of the CSV file that are a header line *)
HeaderRows == {i \in DOMAIN csv_rows : csv_rows[i].kind = "header"}

(* rows still in the buffer: the last csv_buffered rows written *)
BufferedRows == {i \in DOMAIN csv_rows : i > Len(csv_rows) - csv_buffered}

(* C4: with a Recorder configured, each frame handed to generic_handler   *)
(* (notification or poll read, decoded or not) appends exactly one row:   *)
(* the rows appended by the handler are as many as the frames handled,    *)
(* and they are all in the file in addition to the header and probe rows  *)
C4_OneRowPerFrame ==
  csv_file # "none" =>
     /\ rows_by_handler = frames_handled
     /\ Len(csv_rows) >= Cardinality(HeaderRows) + frames_handled

(* C4 witness: frames were handled, one that decodes and one that does not *)
C4_Witness ==
  /\ csv_file = "open"
  /\ frames_handled >= 2
  /\ \E i, j \in DOMAIN csv_rows :
       /\ csv_rows[i].kind = "data" /\ csv_rows[i].fields[2] = ""
       /\ csv_rows[j].kind = "data" /\ csv_rows[j].fields[2] # ""

C6_HeaderIfNewOrEmpty ==
  (pc # "start" /\ csv_path # "none") =>
     Cardinality(HeaderRows) = IF csv_path \in {"absent", "empty"} THEN 1 ELSE 0

(* C6 as amended: the header is written exactly once, as the first row,   *)
(* when the destination does not exist, and not at all when it exists,    *)
(* empty or not; it has 3 columns without csv_raw and 5 with it           *)
C6_HeaderIfNew ==
  (pc # "start" /\ csv_path # "none") =>
     /\ Cardinality(HeaderRows) = IF csv_path = "absent" THEN 1 ELSE 0
     /\ \A i \in HeaderRows :
          /\ i = 1
          /\ csv_rows[i].fields = IF csv_raw THEN HEADER_RAW ELSE HEADER_MIN
          /\ Len(csv_rows[i].fields) = IF csv_raw THEN 5 ELSE 3

(* C6 witness: a fresh destination opened with csv_raw got its one        *)
(* 5-column header as first row, followed by data rows                    *)
C6_Witness ==
  /\ pc = "done"
  /\ csv_path = "absent"
  /\ csv_raw
  /\ Len(csv_rows) >= 2
  /\ csv_rows[1].fields = HEADER_RAW
  /\ Cardinality(HeaderRows) = 1

(* C7: with reconnect disabled there is at most one connection attempt    *)
(* and never a retry wait                                                 *)
C7_NoReconnectOneAttempt ==
  ~reconnect => attempts <= 1 /\ retry_waits = 0 /\ pc # "retry_sleep"

(* C7 witness: reconnect is off, the one attempt ended by link loss with  *)
(* time remaining, and run() is over                                      *)
C7_Witness ==
  /\ ~reconnect
  /\ pc = "done"
  /\ attempts = 1
  /\ attempt_end = "link_loss"
  /\ now < end_time

(* C8: with reconnect enabled, when an attempt has ended by a connect     *)
(* error or by link loss and time remains, the next step of run() starts  *)
(* a wait of retry_interval; the wait ends only when that time has        *)
(* passed, and if the deadline has not passed then, a new connection      *)
(* attempt starts                                                         *)
C8_RetryAfterFailure ==
  [][/\ (/\ pc = "after_attempt" /\ pc' # pc
         /\ reconnect /\ attempt_end \in {"connect_error", "link_loss"}
         /\ now < end_time)
        => (/\ pc' = "retry_sleep"
            /\ wake_at' = now + retry_interval
            /\ retry_waits' = retry_waits + 1)
     /\ (pc = "retry_sleep" /\ pc' # pc /\ ~cancelled')
        => (now >= wake_at /\ pc' = "loop")
     /\ (pc = "loop" /\ pc' # pc /\ retry_waits > 0 /\ now < end_time)
        => (pc' = "connect" /\ attempts' = attempts + 1)
    ]_vars

(* C8 witness: a second attempt is connecting after the first one ended   *)
(* by link loss and a retry wait                                          *)
C8_Witness ==
  /\ reconnect
  /\ pc = "connect"
  /\ attempts = 2
  /\ retry_waits = 1
  /\ attempt_end = "link_loss"

(* C9: the wait between two attempts never extends past the deadline: it  *)
(* is set to end no later than end_time                                   *)
C9_WaitCappedAtDeadline ==
  pc = "retry_sleep" => wake_at <= end_time

(* C10: every start of a retry wait and every start of a connection       *)
(* attempt happens while the current time is strictly before end_time     *)
C10_StartsBeforeDeadline ==
  [][/\ (pc' = "retry_sleep" /\ pc # "retry_sleep") => (now < end_time /\ now' = now)
     /\ (pc' = "connect" /\ pc # "connect") => (now < end_time /\ now' = now)
    ]_vars

(* C10 witness: a retry wait that started in the last second before the   *)
(* deadline, after an attempt that started before it                      *)
C10_Witness ==
  /\ pc = "retry_sleep"
  /\ attempts >= 1
  /\ wake_at - retry_interval = end_time - 1
  /\ now < end_time

(* C11: a discovery that yields no services object or raises ends the     *)
(* session: once an attempt has ended that way there is no retry wait and *)
(* no further connection attempt, also when reconnect is on               *)
C11_DiscoveryFailureTerminal ==
  attempt_end \in {"discovery_none", "discovery_error"}
    => pc \in {"after_attempt", "finally", "done"}

(* C12: when no rung picks a characteristic the session ends at once,     *)
(* also with reconnect on and time left: run() is in its finally block or *)
(* done, nothing was subscribed, nothing is notifying, no poll read was   *)
(* made in the attempt and the link is released                           *)
C12_NoCharEndsSession ==
  attempt_end = "no_char"
    => /\ pc \in {"finally", "done"}
       /\ ~started
       /\ ~notifying
       /\ lastRead = "none"
       /\ ~connected

(* C12 witness: run() is over after one attempt that picked nothing, with *)
(* reconnect on and the deadline still ahead                              *)
C12_Witness ==
  /\ attempt_end = "no_char"
  /\ pc = "done"
  /\ reconnect
  /\ attempts = 1
  /\ retry_waits = 0
  /\ now < end_time

(* C13: a row that could not be written and flushed while a poll-read     *)
(* frame or a probe reading was recorded ends run(): afterwards run() is  *)
(* in its finally block or done, it does not poll, wait or probe on       *)
C13_RecorderErrorFatal ==
  (\/ lastRead = "record_error"
   \/ \E k \in DOMAIN probe_log : probe_log[k].recorded = "error")
    => pc \in {"finally", "done"}

(* the ladder of lines 195-247 read as a function of the descriptor list  *)
(* and of the probe reads made so far                                     *)
MinOf(S) == CHOOSE x \in S : \A y \in S : x <= y

NotifyIndices(chars) ==
  {j \in 1..Len(chars) : "notify" \in chars[j].properties}

VendorNotifyServices(svcs) ==
  {k \in 1..Len(svcs) : /\ Lower(svcs[k].uuid[1]) = VENDOR_PREFIX
                        /\ NotifyIndices(svcs[k].characteristics) # {}}

HasStandard(svcs) ==
  \E k \in 1..Len(svcs) : \E j \in 1..Len(svcs[k].characteristics) :
     svcs[k].characteristics[j].uuid = WEIGHT_CHAR

ProbeDecoded(log) ==
  {k \in DOMAIN log : log[k].read /\ heuristic_parse(log[k].data).ok}

UpperRungMatches(svcs) ==
  \/ HasStandard(svcs)
  \/ VendorNotifyServices(svcs) # {}
  \/ NotifyIndices(Flatten(svcs)) # {}

LadderResult(svcs, log) ==
  LET flat == Flatten(svcs)
  IN IF HasStandard(svcs) THEN WEIGHT_CHAR
     ELSE IF VendorNotifyServices(svcs) # {}
       THEN LET cs == svcs[MinOf(VendorNotifyServices(svcs))].characteristics
            IN cs[MinOf(NotifyIndices(cs))].uuid
     ELSE IF NotifyIndices(flat) # {} THEN flat[MinOf(NotifyIndices(flat))].uuid
     ELSE IF ProbeDecoded(log) # {}
       THEN flat[log[MinOf(ProbeDecoded(log))].i].uuid
     ELSE NoChar

(* C14: selection returns the standard id if a characteristic has it,     *)
(* else the first notify characteristic of the first vendor-prefixed      *)
(* service that has one, else the first notify characteristic, else the   *)
(* first read-capable characteristic whose probe read decodes, else       *)
(* nothing; a probe read is made only when the first three rungs fail;    *)
(* the result is fixed by the list and the probe reads                    *)
C14_LadderResult ==
  /\ pc = "setup" => chosen_char = LadderResult(services, probe_log)
  /\ (pc = "finally" /\ attempt_end = "no_char")
       => LadderResult(services, probe_log) = NoChar
  /\ probe_log # <<>> => ~UpperRungMatches(services)
  /\ \A k \in DOMAIN probe_log :
       /\ "read" \in Flatten(services)[probe_log[k].i].properties
       /\ k > 1 => probe_log[k - 1].i < probe_log[k].i

(* the k-th probe read made the rung choose its characteristic *)
ProbeAccepted(k) ==
  /\ pc = "setup"
  /\ k = Len(probe_log)
  /\ chosen_char = Flatten(services)[probe_log[k].i].uuid

(* C15: a probed characteristic is accepted exactly when the composite    *)
(* decoder (standard, then fixed-offset, then scanning) gives a result on *)
(* the bytes read; stated here for the reads whose row was not lost       *)
C15_ProbeUsesComposite ==
  \A k \in DOMAIN probe_log :
     (probe_log[k].read /\ probe_log[k].recorded # "error")
       => (ProbeAccepted(k) <=> Decode(probe_log[k].data).ok)

(* C15 as the code has it: a probed characteristic is accepted exactly    *)
(* when the read returned bytes, heuristic_parse alone gives a result on  *)
(* them and the probe row, if one is written, was flushed; the first such *)
(* characteristic in iteration order is the one chosen                    *)
C15_ProbeUsesHeuristic ==
  /\ \A k \in DOMAIN probe_log :
       ProbeAccepted(k) <=> /\ probe_log[k].read
                            /\ heuristic_parse(probe_log[k].data).ok
                            /\ probe_log[k].recorded # "error"
  /\ (pc = "setup" /\ probe_log # <<>>) => ProbeAccepted(Len(probe_log))

(* C15 witness: the first readable characteristic returned 00 00 14,      *)
(* which only the standard decode accepts, and was passed over; the       *)
(* second returned 50 00 and was chosen                                   *)
C15_Witness ==
  /\ pc = "setup"
  /\ Len(probe_log) = 2
  /\ probe_log[1].read
  /\ probe_log[1].data = <<0, 0, 20>>
  /\ Decode(probe_log[1].data).ok
  /\ probe_log[2].data = <<80, 0>>
  /\ chosen_char = U_FFF3

(* the descriptor the ladder stopped at can notify: rung 1 stops at the   *)
(* first descriptor with the standard id, rungs 2 and 3 stop at a         *)
(* descriptor with 'notify', rung 4 runs only when there is none          *)
PickedCanNotify(svcs) ==
  LET flat == Flatten(svcs)
      std == {j \in 1..Len(flat) : flat[j].uuid = WEIGHT_CHAR}
  IN IF std # {} THEN "notify" \in flat[MinOf(std)].properties
     ELSE NotifyIndices(flat) # {}

PollPcs == {"poll_check", "poll_read", "poll_sleep"}

(* C16: the session subscribes, and does not poll, when the descriptor    *)
(* the ladder picked is notify-capable, and polls when it is not, also    *)
(* when the picked id occurs in several services with other capabilities  *)
C16_ModeFollowsPicked ==
  /\ pc \in PollPcs => ~PickedCanNotify(services)
  /\ pc = "start_notify" => PickedCanNotify(services)

(* C17: parse_weight gives no result exactly on payloads shorter than 3   *)
(* bytes; otherwise raw is the little-endian 16 bit value of bytes 1-2,   *)
(* the weight raw * 0.01 lb when bit 0 of byte 0 is set and raw * 0.005   *)
(* kg when it is not, whatever the other flag bits and the later bytes    *)
(* (00 00 14 is 25.6 kg, 01 64 00 is 1.00 lb)                             *)
C17_ParseWeight ==
  decoder = "parse_weight" =>
    /\ ~decoded.ok <=> Len(frame) < 3
    /\ Len(frame) >= 3 =>
         LET raw == frame[2] + 256 * frame[3]
         IN IF frame[1] % 2 = 1
            THEN decoded.unit = "lb" /\ decoded.weight = raw * 10
            ELSE decoded.unit = "kg" /\ decoded.weight = raw * 5
    /\ frame = <<0, 0, 20>> => (decoded.weight = 25600 /\ decoded.unit = "kg")
    /\ frame = <<1, 100, 0>> => (decoded.weight = 1000 /\ decoded.unit = "lb")

(* C17 witness: a payload with every flag bit set and a byte after byte 2 *)
(* decoded as 1.000 lb                                                    *)
C17_Witness ==
  /\ decoder = "parse_weight"
  /\ frame = <<255, 100, 0, 39>>
  /\ decoded.ok
  /\ decoded.weight = 1000
  /\ decoded.unit = "lb"

(* C18: on FF FF 10 27 find_weight_in_raw rejects the window at offset 0  *)
(* as kg and as lb and returns the window at offset 1 as 21.755 kg, with  *)
(* method uint16*0.005, without trying a 4-byte window                    *)
C18_ScanSkipsOffsetZero ==
  (decoder = "find_weight_in_raw" /\ frame = <<255, 255, 16, 39>>) =>
    /\ decoded = Result(21755, "kg", "uint16*0.005", 1)
    /\ \A k \in DOMAIN WindowsTried(frame) : WindowsTried(frame)[k][1] = 2

(* C18 as the code has it: on FF FF 10 27 the window at offset 0 is       *)
(* rejected as kg (327.675 > 300) and accepted as lb (655.35 is within    *)
(* [5, 660]); the result is 655.350 lb, method uint16*0.01, offset 0, and *)
(* no other window, of 2 or of 4 bytes, is tried                          *)
C18_ScanTakesOffsetZeroAsLb ==
  (decoder = "find_weight_in_raw" /\ frame = <<255, 255, 16, 39>>) =>
    /\ decoded = Result(655350, "lb", "uint16*0.01", 0)
    /\ ~(2000 <= 65535 * 5 /\ 65535 * 5 <= 300000)
    /\ WindowsTried(frame) = <<(<<2, 0>>)>>

(* C18 witness: find_weight_in_raw was applied to FF FF 10 27 and gave a  *)
(* weight in pounds                                                       *)
C18_Witness ==
  /\ decoder = "find_weight_in_raw"
  /\ frame = <<255, 255, 16, 39>>
  /\ decoded.ok
  /\ decoded.unit = "lb"

(* C19: heuristic_parse gives nothing on fewer than 2 bytes; otherwise it *)
(* returns the first accepted of raw16 * 0.005 kg if 0 < kg < 500, raw16  *)
(* * 0.01 lb if 0 < lb < 1000 and, with 4 bytes or more, raw32 * 0.001 kg *)
(* if 0 < kg32 < 500, and nothing when none is accepted (50 00 is 0.40    *)
(* kg)                                                                    *)
C19_HeuristicOrder ==
  decoder = "heuristic_parse" =>
    /\ Len(frame) < 2 => ~decoded.ok
    /\ Len(frame) >= 2 =>
         LET raw16 == frame[1] + 256 * frame[2]
             low24 == frame[1] + 256 * frame[2] + 65536 * frame[3]
             kg32ok == /\ Len(frame) >= 4
                       /\ frame[4] = 0
                       /\ 0 < low24
                       /\ low24 < 500000
         IN IF 0 < raw16 * 5 /\ raw16 * 5 < 500000
            THEN decoded = Result(raw16 * 5, "kg", "uint16*0.005", -1)
            ELSE IF 0 < raw16 * 10 /\ raw16 * 10 < 1000000
            THEN decoded = Result(raw16 * 10, "lb", "uint16*0.01", -1)
            ELSE IF kg32ok
            THEN decoded = Result(low24, "kg", "uint32*0.001", -1)
            ELSE ~decoded.ok
    /\ frame = <<80, 0>> => (decoded.weight = 400 /\ decoded.unit = "kg")

(* C19 witness: both 16 bit candidates were rejected and the 32 bit one   *)
(* was accepted, 00 00 01 00 giving 65.536 kg                             *)
C19_Witness ==
  /\ decoder = "heuristic_parse"
  /\ frame = <<0, 0, 1, 0>>
  /\ decoded = Result(65536, "kg", "uint32*0.001", -1)

C21_EndsAfterDeadline ==
  /\ [][(pc' = "poll_read" /\ pc # "poll_read") => now < end_time]_vars
  /\ [](pc = "waiting" => now <= end_time)
  /\ (pc # "start" /\ now >= end_time) ~> (pc = "done")

(* C21 witness: run() has returned after a poll session that read a frame *)
(* and then waited until the deadline                                     *)
C21_Witness ==
  /\ pc = "done"
  /\ attempt_end = "deadline"
  /\ lastRead = "ok"
  /\ now >= end_time

(* C22: every data row written to the CSV file has as many fields as the  *)
(* header of the configured layout: 3 when csv_raw is off, 5 when it is   *)
(* on, for decoded frames, unparsed frames and the probe reading          *)
C22_RowsMatchHeader ==
  \A k \in DOMAIN csv_rows :
     csv_rows[k].kind = "data"
       => Len(csv_rows[k].fields) = Len(HeaderFor(csv_raw))

(* C23: the decode of generic_handler gives the standard decode on every  *)
(* payload of 3 bytes or more, calling neither heuristic; the uint16 *    *)
(* 0.005 kg value on 2 bytes that are not both zero; nothing on 0 or 1    *)
(* byte and on two zero bytes; and never a result of find_weight_in_raw   *)
C23_CompositeDecode ==
  decoder = "generic_handler" =>
    /\ Len(frame) >= 3 =>
         /\ decoded.ok
         /\ decoded.method = "standard"
         /\ decoded.unit = IF frame[1] % 2 = 1 THEN "lb" ELSE "kg"
         /\ decoded.weight = (frame[2] + 256 * frame[3])
                               * (IF frame[1] % 2 = 1 THEN 10 ELSE 5)
         /\ DecodeCalls(frame) = <<"parse_weight">>
    /\ (Len(frame) = 2 /\ frame # <<0, 0>>) =>
         decoded = Result((frame[1] + 256 * frame[2]) * 5, "kg",
                          "uint16*0.005", -1)
    /\ (Len(frame) <= 1 \/ frame = <<0, 0>>) => ~decoded.ok
    /\ decoded.ok => decoded.offset = -1

(* C23 witness: 01 64 00, which heuristic_parse and find_weight_in_raw   *)
(* would both read as 128.005 kg, is decoded by the standard decode as    *)
(* 1.000 lb                                                               *)
C23_Witness ==
  /\ decoder = "generic_handler"
  /\ frame = <<1, 100, 0>>
  /\ heuristic_parse(frame).weight = 128005
  /\ find_weight_in_raw(frame).weight = 128005
  /\ decoded = Result(1000, "lb", "standard", -1)

====
